---------------------------- MODULE Spec2Model ----------------------------
(***************************************************************************)
(* A model of the AI teaching assistant: the response parser               *)
(* (frontend/app.py and frontend/tasks.py), the content orchestration      *)
(* functions, the diagram rendering wrapper and the Streamlit pages        *)
(* that mutate st.session_state.                                           *)
(*                                                                         *)
(* Text is a sequence of one-character strings.  Python values are tagged  *)
(* records [t, v]: None, bool, int, str, list and dict.                    *)
(***************************************************************************)
EXTENDS Integers, Sequences, FiniteSets, TLC

(***************************************************************************)
(* Characters                                                              *)
(***************************************************************************)
\* Representatives of the code points 0..31 matched by [\x00-\x1F].
ControlChars == {"\t", "\n", "\r", "\f"}

\* json.decoder.WHITESPACE: [ \t\n\r]*
JsonWs == {" ", "\t", "\n", "\r"}

\* The characters str.strip() removes from both ends.
PyWs == {" ", "\t", "\n", "\r", "\f"}

Digits == {"0", "1", "2", "3", "4", "5", "6", "7", "8", "9"}

DigitVal(c) ==
    CASE c = "0" -> 0 [] c = "1" -> 1 [] c = "2" -> 2 [] c = "3" -> 3
      [] c = "4" -> 4 [] c = "5" -> 5 [] c = "6" -> 6 [] c = "7" -> 7
      [] c = "8" -> 8 [] c = "9" -> 9

(***************************************************************************)
(* Python values                                                           *)
(***************************************************************************)
PyNone == [t |-> "none", v |-> 0]
PyBool(b) == [t |-> "bool", v |-> b]
PyInt(n) == [t |-> "int", v |-> n]
PyStr(s) == [t |-> "str", v |-> s]
PyList(l) == [t |-> "list", v |-> l]
PyDict(d) == [t |-> "dict", v |-> d]

\* Python truth value testing (bool(x)).
Truthy(x) ==
    CASE x.t = "none" -> FALSE
      [] x.t = "bool" -> x.v
      [] x.t = "int" -> x.v # 0
      [] x.t = "str" -> Len(x.v) > 0
      [] x.t = "list" -> Len(x.v) > 0
      [] x.t = "dict" -> DOMAIN x.v # {}

\* dict.get(key, default)
Get(d, key, default) == IF key \in DOMAIN d.v THEN d.v[key] ELSE default

\* A value Python orders against an int with <  (bool is an int).
IsNumber(x) == x.t \in {"int", "bool"}

(***************************************************************************)
(* json.loads, on the JSON subset the alphabet can spell: objects,         *)
(* arrays, strings without escapes, integers, null, true, false.           *)
(* Every result is [ok, val, pos]: pos is the index after the value.       *)
(***************************************************************************)
Fail == [ok |-> FALSE, val |-> PyNone, pos |-> 0]

Done(val, pos) == [ok |-> TRUE, val |-> val, pos |-> pos]

\* Op applied to the value of v, which is computed once.
With(v, Op(_)) == CHOOSE r \in {Op(x) : x \in {v}} : TRUE

RECURSIVE SkipWs(_, _)
SkipWs(s, i) ==
    IF i <= Len(s) /\ s[i] \in JsonWs THEN SkipWs(s, i + 1) ELSE i

HasPrefix(s, i, lit) ==
    /\ i + Len(lit) - 1 <= Len(s)
    /\ SubSeq(s, i, i + Len(lit) - 1) = lit

\* Index of the closing quote of the string whose content starts at i; 0 when
\* the text ends first or a control character is met (strict decoding).
RECURSIVE StringEnd(_, _)
StringEnd(s, i) ==
    IF i > Len(s) THEN 0
    ELSE IF s[i] = "\"" THEN i
    ELSE IF s[i] \in ControlChars THEN 0
    ELSE StringEnd(s, i + 1)

scanstring(s, i) ==
    With(StringEnd(s, i), LAMBDA e :
        IF e = 0 THEN Fail ELSE Done(PyStr(SubSeq(s, i, e - 1)), e + 1))

RECURSIVE DigitsEnd(_, _)
DigitsEnd(s, i) ==
    IF i <= Len(s) /\ s[i] \in Digits THEN DigitsEnd(s, i + 1) ELSE i

RECURSIVE IntOf(_, _, _)
IntOf(s, i, j) ==
    IF j < i THEN 0 ELSE 10 * IntOf(s, i, j - 1) + DigitVal(s[j])

\* NUMBER_RE, integer part: -?(0|[1-9]\d*)
match_number(s, i) ==
    LET neg == i <= Len(s) /\ s[i] = "-"
        d   == IF neg THEN i + 1 ELSE i
    IN  IF d > Len(s) \/ s[d] \notin Digits THEN Fail
        ELSE With(IF s[d] = "0" THEN d + 1 ELSE DigitsEnd(s, d), LAMBDA e :
                 Done(PyInt(IF neg THEN 0 - IntOf(s, d, e - 1) ELSE IntOf(s, d, e - 1)), e))

RECURSIVE scan_once(_, _)
RECURSIVE ObjectMembers(_, _, _)
RECURSIVE ArrayItems(_, _, _)

\* JSONObject: i is the index after the opening brace.
JSONObject(s, i) ==
    With(SkipWs(s, i), LAMBDA j :
        IF j > Len(s) THEN Fail
        ELSE IF s[j] = "}" THEN Done(PyDict(<<>>), j + 1)
        ELSE ObjectMembers(s, j, <<>>))

\* What follows a member's value at e: the end of the object, or a comma and
\* the next member.  d holds the members read so far.
AfterMember(s, e, d) ==
    IF e > Len(s) THEN Fail
    ELSE IF s[e] = "}" THEN Done(PyDict(d), e + 1)
    ELSE IF s[e] = "," THEN With(SkipWs(s, e + 1), LAMBDA j : ObjectMembers(s, j, d))
    ELSE Fail

\* j is where a property name must open; a repeated key keeps the last value.
ObjectMembers(s, j, pairs) ==
    IF j > Len(s) \/ s[j] # "\"" THEN Fail
    ELSE With(scanstring(s, j + 1), LAMBDA k :
         IF ~k.ok THEN Fail
         ELSE With(SkipWs(s, k.pos), LAMBDA c :
              IF c > Len(s) \/ s[c] # ":" THEN Fail
              ELSE With(scan_once(s, SkipWs(s, c + 1)), LAMBDA val :
                   IF ~val.ok THEN Fail
                   ELSE With((k.val.v :> val.val) @@ pairs, LAMBDA d :
                        With(SkipWs(s, val.pos), LAMBDA e : AfterMember(s, e, d))))))

\* JSONArray: i is the index after the opening bracket.
JSONArray(s, i) ==
    With(SkipWs(s, i), LAMBDA j :
        IF j > Len(s) THEN Fail
        ELSE IF s[j] = "]" THEN Done(PyList(<<>>), j + 1)
        ELSE ArrayItems(s, j, <<>>))

\* What follows an item at e: the end of the array, or a comma and the next
\* item.  l holds the items read so far.
AfterItem(s, e, l) ==
    IF e > Len(s) THEN Fail
    ELSE IF s[e] = "]" THEN Done(PyList(l), e + 1)
    ELSE IF s[e] = "," THEN With(SkipWs(s, e + 1), LAMBDA j : ArrayItems(s, j, l))
    ELSE Fail

ArrayItems(s, j, items) ==
    With(scan_once(s, j), LAMBDA val :
        IF ~val.ok THEN Fail
        ELSE With(Append(items, val.val), LAMBDA l :
             With(SkipWs(s, val.pos), LAMBDA e : AfterItem(s, e, l))))

\* py_make_scanner's _scan_once at index i.
scan_once(s, i) ==
    IF i > Len(s) THEN Fail
    ELSE CASE s[i] = "\"" -> scanstring(s, i + 1)
           [] s[i] = "{" -> JSONObject(s, i + 1)
           [] s[i] = "[" -> JSONArray(s, i + 1)
           [] HasPrefix(s, i, <<"n", "u", "l", "l">>) -> Done(PyNone, i + 4)
           [] HasPrefix(s, i, <<"t", "r", "u", "e">>) -> Done(PyBool(TRUE), i + 4)
           [] HasPrefix(s, i, <<"f", "a", "l", "s", "e">>) -> Done(PyBool(FALSE), i + 5)
           [] s[i] \in Digits \cup {"-"} -> match_number(s, i)
           [] OTHER -> Fail

\* json.loads(text): [raised, val]; raised stands for json.JSONDecodeError
\* ("Expecting value", "Extra data", ...).
json_loads(text) ==
    With(text, LAMBDA s :
        With(scan_once(s, SkipWs(s, 1)), LAMBDA r :
            IF r.ok /\ SkipWs(s, r.pos) = Len(s) + 1
            THEN [raised |-> FALSE, val |-> r.val]
            ELSE [raised |-> TRUE, val |-> PyNone]))

(***************************************************************************)
(* The two regular expressions of the parser                               *)
(***************************************************************************)
\* re.sub(r'[\x00-\x1F]+', '', response_text)
re_sub_control(s) == SelectSeq(s, LAMBDA c : c \notin ControlChars)

FirstIndex(s, c) ==
    IF \E i \in 1..Len(s) : s[i] = c
    THEN CHOOSE i \in 1..Len(s) : s[i] = c /\ \A j \in 1..(i - 1) : s[j] # c
    ELSE 0

LastIndex(s, c) ==
    IF \E i \in 1..Len(s) : s[i] = c
    THEN CHOOSE i \in 1..Len(s) : s[i] = c /\ \A j \in (i + 1)..Len(s) : s[j] # c
    ELSE 0

\* re.search(r'\{.*\}', text, re.DOTALL): the leftmost "{" and, greedily, the
\* last "}" after it; found = FALSE is the None that .group() faults on.
re_search_braces(text) ==
    With(text, LAMBDA s :
        With(<<FirstIndex(s, "{"), LastIndex(s, "}")>>, LAMBDA ab :
            IF ab[1] # 0 /\ ab[2] > ab[1]
            THEN [found |-> TRUE, group |-> SubSeq(s, ab[1], ab[2])]
            ELSE [found |-> FALSE, group |-> <<>>]))

(***************************************************************************)
(* Response parser                                                         *)
(***************************************************************************)
\* The try block of frontend/app.py parse_json_response: raised stands for
\* the AttributeError of None.group() or the error of json.loads.
app_parse_try(response_text) ==
    With(re_search_braces(re_sub_control(response_text)), LAMBDA m :
        IF ~m.found THEN [raised |-> TRUE, val |-> PyNone]
        ELSE json_loads(m.group))

\* A parser without the except clause: the error of the try block escapes.
parse_json_response_uncaught(response_text) ==
    With(app_parse_try(response_text), LAMBDA r :
        [raised |-> r.raised, val |-> r.val, errors |-> {}])

\* frontend/app.py parse_json_response: except Exception -> st.error, None.
parse_json_response(response_text) ==
    With(app_parse_try(response_text), LAMBDA r :
        IF r.raised
        THEN [raised |-> FALSE, val |-> PyNone, errors |-> {"Error parsing JSON"}]
        ELSE [raised |-> FALSE, val |-> r.val, errors |-> {}])

\* The try block of frontend/tasks.py parse_json_response: no control
\* character is stripped before the search.
tasks_parse_try(response_text) ==
    With(re_search_braces(response_text), LAMBDA m :
        IF ~m.found THEN [raised |-> TRUE, val |-> PyNone]
        ELSE json_loads(m.group))

\* frontend/tasks.py parse_json_response: except Exception -> None.
tasks_parse_json_response(response_text) ==
    With(tasks_parse_try(response_text), LAMBDA r :
        IF r.raised
        THEN [raised |-> FALSE, val |-> PyNone]
        ELSE [raised |-> FALSE, val |-> r.val])

(***************************************************************************)
(* Content orchestration functions.  Each takes the completion its one     *)
(* chain.run call returns and yields [raised, val, errors, requests].      *)
(***************************************************************************)
K_notes == <<"n", "o", "t", "e", "s">>
K_questions == <<"q", "u", "e", "s", "t", "i", "o", "n", "s">>
K_flashcards == <<"f", "l", "a", "s", "h", "c", "a", "r", "d", "s">>
K_score == <<"s", "c", "o", "r", "e">>
K_feedback == <<"f", "e", "e", "d", "b", "a", "c", "k">>

PyTuple(a, b) == [t |-> "tuple", v |-> <<a, b>>]

generate_content(response_text) ==
    With(parse_json_response(response_text), LAMBDA p :
        IF p.raised
        THEN [raised |-> TRUE, val |-> PyNone, errors |-> p.errors, requests |-> 1]
        ELSE IF Truthy(p.val)
        THEN [raised |-> FALSE,
              val |-> PyTuple(Get(p.val, K_notes, PyStr(<<>>)),
                              Get(p.val, K_questions, PyList(<<>>))),
              errors |-> p.errors, requests |-> 1]
        ELSE [raised |-> FALSE, val |-> PyTuple(PyNone, PyNone),
              errors |-> p.errors \cup {"Failed to parse JSON output from the AI"},
              requests |-> 1])

generate_flashcards(response_text) ==
    With(parse_json_response(response_text), LAMBDA p :
        IF p.raised
        THEN [raised |-> TRUE, val |-> PyNone, errors |-> p.errors, requests |-> 1]
        ELSE IF Truthy(p.val) /\ K_flashcards \in DOMAIN p.val.v
        THEN [raised |-> FALSE, val |-> p.val.v[K_flashcards],
              errors |-> p.errors, requests |-> 1]
        ELSE [raised |-> FALSE, val |-> PyNone,
              errors |-> p.errors \cup {"Failed to generate flashcards"},
              requests |-> 1])

\* An evaluation that asks for a second completion when the first does not parse.
evaluate_answer_retry(response_text) ==
    With(parse_json_response(response_text), LAMBDA p :
        [raised |-> p.raised, val |-> p.val, errors |-> p.errors,
         requests |-> IF Truthy(p.val) THEN 1 ELSE 2])

evaluate_answer(response_text) ==
    With(parse_json_response(response_text), LAMBDA p :
        [raised |-> p.raised, val |-> p.val, errors |-> p.errors, requests |-> 1])

generate_plantuml_code(response_text) ==
    [raised |-> FALSE, val |-> PyStr(response_text), errors |-> {}, requests |-> 1]

generate_lesson_plan(response_text) ==
    [raised |-> FALSE, val |-> PyStr(response_text), errors |-> {}, requests |-> 1]

evaluate_answer_task(response_text) ==
    With(tasks_parse_json_response(response_text), LAMBDA p :
        [raised |-> p.raised, val |-> p.val, errors |-> {}, requests |-> 1])

(***************************************************************************)
(* Completions the language model may return, per prompt template          *)
(***************************************************************************)
Quote(s) == <<"\"">> \o s \o <<"\"">>

\* "key":value
Member(key, value) == Quote(key) \o <<":">> \o value

Object1(m) == <<"{">> \o m \o <<"}">>

Object2(m1, m2) == <<"{">> \o m1 \o <<",">> \o m2 \o <<"}">>

RECURSIVE ArrayOf(_, _)
\* The JSON array of n copies of item.
ArrayOf(item, n) ==
    IF n = 0 THEN <<"[", "]">>
    ELSE IF n = 1 THEN <<"[">> \o item \o <<"]">>
    ELSE <<"[">> \o item \o <<",">> \o Tail(ArrayOf(item, n - 1))

\* The number of questions the combined prompt asks for.
NumQuestions == 5

\* A question count the prompt does not ask for.
FewQuestions == 3

ContentCompletions ==
    { Object2(Member(K_notes, Quote(<<"n">>)),
              Member(K_questions, ArrayOf(Quote(<<"q">>), NumQuestions))),
      <<"O", "K", ":", "\n">> \o
          Object2(Member(K_notes, Quote(<<"m">>)),
                  Member(K_questions, ArrayOf(Quote(<<"q">>), NumQuestions))),
      Object2(Member(K_notes, Quote(<<"n">>)),
              Member(K_questions, ArrayOf(Quote(<<"q">>), FewQuestions))),
      Object2(Member(K_notes, Quote(<<>>)),
              Member(K_questions, ArrayOf(Quote(<<"q">>), NumQuestions))),
      Object1(Member(K_notes, Quote(<<"n">>))),
      <<"{", "}">>,
      <<"s", "o", "r", "r", "y">> }

EvaluationCompletions ==
    { Object2(Member(K_score, <<"2">>), Member(K_feedback, Quote(<<"a">>))),
      Object2(Member(K_score, <<"4">>), Member(K_feedback, Quote(<<"b">>))),
      Object1(Member(K_feedback, Quote(<<"a">>))),
      <<"{", "}">>,
      <<"o", "o", "p", "s">> }

FlashcardCompletions ==
    { Object1(Member(K_flashcards,
          ArrayOf(Object2(Member(<<"q", "u", "e", "s", "t", "i", "o", "n">>, Quote(<<"q">>)),
                          Member(<<"a", "n", "s", "w", "e", "r">>, Quote(<<"a">>))), 1))),
      Object1(Member(K_flashcards, ArrayOf(Quote(<<"q">>), 1))),
      Object1(Member(K_flashcards, <<"[", "]">>)),
      <<"n", "o">> }

PlantumlCompletions == { <<"A", "-", ">", "B">>, <<>> }

LessonCompletions == { <<"p", "l", "a", "n">> }

\* Values of the answer text area.
Answers == { <<>>, <<" ", "\t">>, <<" ", "a", "\n">> }

(***************************************************************************)
(* What each orchestration function returns on each completion above (the  *)
(* functions depend on nothing else), tabulated once.                      *)
(***************************************************************************)
ContentResults == [raw \in ContentCompletions |-> generate_content(raw)]

FlashcardResults == [raw \in FlashcardCompletions |-> generate_flashcards(raw)]

EvaluationResults == [raw \in EvaluationCompletions |-> evaluate_answer(raw)]

TaskResults == [raw \in EvaluationCompletions |-> evaluate_answer_task(raw)]

(***************************************************************************)
(* str.strip()                                                             *)
(***************************************************************************)
RECURSIVE lstrip(_)
lstrip(s) == IF s # <<>> /\ Head(s) \in PyWs THEN lstrip(Tail(s)) ELSE s

RECURSIVE rstrip(_)
rstrip(s) ==
    IF s # <<>> /\ s[Len(s)] \in PyWs THEN rstrip(SubSeq(s, 1, Len(s) - 1)) ELSE s

\* A strip() that trims nothing.
strip_nothing(s) == s

strip(s) == rstrip(lstrip(s))

(***************************************************************************)
(* The file system seen by generate_uml                                    *)
(***************************************************************************)
\* The number of names tempfile.NamedTemporaryFile can still hand out.
MaxTempFiles == 1

TempFile(n, suffix) == [name |-> n, suffix |-> suffix]

\* output_filename = "diagram.png" in the working directory.
OutputFile == [name |-> 0, suffix |-> "diagram.png"]

\* What the renderer process does: it cannot be started (subprocess.run
\* raises), exits non-zero, or exits zero with or without the .png beside
\* the source.
RendererOutcomes == {"cannot_start", "nonzero_exit", "zero_no_output", "zero_with_output"}

\* os.rename onto an existing diagram.png: replaced (POSIX) or
\* FileExistsError (Windows).
RenameOutcomes == {"replace", "FileExistsError"}

\* generate_uml(uml_code) with temp name n: [raised, val, errors, files].
generate_uml(fs, n, outcome, rename) ==
    LET uml_filepath == TempFile(n, ".uml")
        generated_filepath == TempFile(n, ".png")
        written == fs \cup {uml_filepath}
    IN  IF outcome = "cannot_start"
        THEN [raised |-> "FileNotFoundError", val |-> PyNone, errors |-> {},
              files |-> written]
        ELSE IF outcome = "nonzero_exit"
        THEN [raised |-> "none", val |-> PyNone,
              errors |-> {"Error generating UML diagram"},
              files |-> written \ {uml_filepath}]
        ELSE IF outcome = "zero_with_output"
        THEN IF OutputFile \in written /\ rename = "FileExistsError"
             THEN [raised |-> "FileExistsError", val |-> PyNone, errors |-> {},
                   files |-> written \cup {generated_filepath}]
             ELSE [raised |-> "none",
                   val |-> PyStr(<<"d", "i", "a", "g", "r", "a", "m", ".", "p", "n", "g">>),
                   errors |-> {},
                   files |-> (written \cup {OutputFile}) \ {uml_filepath}]
        ELSE [raised |-> "none", val |-> PyNone,
              errors |-> {"Diagram file not found"},
              files |-> written \ {uml_filepath}]

(***************************************************************************)
(* State                                                                   *)
(***************************************************************************)
VARIABLES
    notes,           \* st.session_state["notes"]
    questions,       \* st.session_state["questions"]
    evaluations,     \* st.session_state["evaluations"]: a set of <<key, record>>
    plantuml_code,   \* st.session_state["plantuml_code"]
    diagram_path,    \* st.session_state["diagram_path"]
    show_uml_code,   \* st.session_state["show_uml_code"]
    lesson_plan,     \* st.session_state["lesson_plan"]
    flashcards,      \* st.session_state["flashcards"]
    files,           \* the files generate_uml creates, renames and removes
    page,            \* the page (or task) of the last script run
    pressed,         \* the index of the Submit button pressed in that run, or 0
    student_answer,  \* the answer text submitted in that run
    completion,   \* the completion received in that run
    requests,        \* the completion requests issued in that run
    renders,         \* the generate_uml calls made in that run
    temp_file,    \* the temporary file of that run's generate_uml call
    returned,        \* what the orchestration function called in that run returned
    replaced,        \* the record that run's evaluations[answer_key] = ... overwrote
    shown,           \* st.error / st.warning messages of that run
    fault,           \* the exception that ended that run, or "none"
    runs             \* script runs so far

session == <<notes, questions, evaluations, plantuml_code, diagram_path,
             show_uml_code, lesson_plan, flashcards>>

vars == <<notes, questions, evaluations, plantuml_code, diagram_path,
          show_uml_code, lesson_plan, flashcards, files, page, pressed,
          student_answer, completion, requests, renders, temp_file,
          returned, replaced, shown, fault, runs>>

\* The script runs explored in one session.
MaxRuns == 3

NoFile == [name |-> 0, suffix |-> ""]

\* The per-run observations of a script run.
Ran(p, btn, ans, resp, req, ren, tmp, ret, old, msgs, exc) ==
    /\ page' = p
    /\ pressed' = btn
    /\ student_answer' = ans
    /\ completion' = resp
    /\ requests' = req
    /\ renders' = ren
    /\ temp_file' = tmp
    /\ returned' = ret
    /\ replaced' = old
    /\ shown' = msgs
    /\ fault' = exc
    /\ runs' = runs + 1

\* Lines 183-198, and a working directory that may hold the diagram.png of an
\* earlier session.
Init ==
    /\ notes = PyStr(<<>>)
    /\ questions = PyList(<<>>)
    /\ evaluations = {}
    /\ plantuml_code = PyStr(<<>>)
    /\ diagram_path = PyStr(<<>>)
    /\ show_uml_code = FALSE
    /\ lesson_plan = PyStr(<<>>)
    /\ flashcards = PyList(<<>>)
    /\ files \in {{}, {OutputFile}}
    /\ page = "start"
    /\ pressed = 0
    /\ student_answer = <<>>
    /\ completion = <<>>
    /\ requests = 0
    /\ renders = 0
    /\ temp_file = NoFile
    /\ returned = PyNone
    /\ replaced = PyNone
    /\ shown = {}
    /\ fault = "none"
    /\ runs = 0

(***************************************************************************)
(* Python helpers of the pages                                             *)
(***************************************************************************)
\* A store that appends the record instead of replacing it.
DictStore_append(d, key, value) == d \cup {<<key, value>>}

\* d[key] = value on a dict kept as a set of <<key, value>> pairs.
DictStore(d, key, value) == {kv \in d : kv[1] # key} \cup {<<key, value>>}

DigitChar(n) == CHOOSE c \in Digits : DigitVal(c) = n

\* answer_key = f"q{idx}"
answer_key(idx) == <<"q", DigitChar(idx)>>

\* The exception of  for idx, card in enumerate(x): card.get(...)
EnumerateGetFault(x) ==
    CASE x.t \in {"int", "bool", "none"} -> "TypeError"
      [] x.t = "list" ->
           IF \E i \in 1..Len(x.v) : x.v[i].t # "dict" THEN "AttributeError" ELSE "none"
      [] OTHER -> "AttributeError"

\* len(list(enumerate(x))) for the values a for loop accepts.
NumItems(x) ==
    CASE x.t \in {"list", "str"} -> Len(x.v)
      [] x.t = "dict" -> Cardinality(DOMAIN x.v)
      [] OTHER -> 0

(***************************************************************************)
(* Page 1: Generate Content (the button, with text extracted)              *)
(***************************************************************************)
\* An acceptance test with "or" in place of "and".
ContentAccepted_either(n, q) == Truthy(n) \/ Truthy(q)

\* if notes and questions:
ContentAccepted(n, q) == Truthy(n) /\ Truthy(q)

GenerateContentPage(raw) ==
    LET r == ContentResults[raw]
        store == ~r.raised /\ ContentAccepted(r.val.v[1], r.val.v[2])
    IN  /\ runs < MaxRuns
        /\ notes' = IF store THEN r.val.v[1] ELSE notes
        /\ questions' = IF store THEN r.val.v[2] ELSE questions
        /\ UNCHANGED <<evaluations, plantuml_code, diagram_path, show_uml_code,
                       lesson_plan, flashcards, files>>
        /\ Ran("Generate Content", 0, <<>>, raw, r.requests, 0, NoFile, r.val,
               PyNone, r.errors, IF r.raised THEN "Exception" ELSE "none")

(***************************************************************************)
(* Page 2: Flashcards                                                      *)
(***************************************************************************)
FlashcardsPage ==
    /\ runs < MaxRuns
    /\ IF ~Truthy(notes)
       THEN /\ UNCHANGED flashcards
            /\ Ran("Flashcards", 0, <<>>, <<>>, 0, 0, NoFile, PyNone, PyNone,
                   {"No content generated"}, "none")
       ELSE \E raw \in FlashcardCompletions :
              LET r == FlashcardResults[raw]
              IN  IF ~r.raised /\ Truthy(r.val)
                  THEN /\ flashcards' = r.val
                       /\ Ran("Flashcards", 0, <<>>, raw, r.requests, 0, NoFile, r.val,
                              PyNone, r.errors, EnumerateGetFault(r.val))
                  ELSE /\ UNCHANGED flashcards
                       /\ Ran("Flashcards", 0, <<>>, raw, r.requests, 0, NoFile, r.val,
                              PyNone, r.errors \cup {"Flashcards could not be generated"},
                              IF r.raised THEN "Exception" ELSE "none")
    /\ UNCHANGED <<notes, questions, evaluations, plantuml_code, diagram_path,
                   show_uml_code, lesson_plan, files>>

(***************************************************************************)
(* Page 3: Questionnaire                                                   *)
(***************************************************************************)
QuestionnaireNoContent ==
    /\ runs < MaxRuns
    /\ ~Truthy(questions)
    /\ UNCHANGED <<session, files>>
    /\ Ran("Questionnaire", 0, <<>>, <<>>, 0, 0, NoFile, PyNone, PyNone,
           {"No content generated"}, "none")

\* The run in which the button "Submit Answer idx" is pressed.
SubmitAnswer(idx, answer) ==
    /\ runs < MaxRuns
    /\ Truthy(questions)
    /\ idx \in 1..NumItems(questions)
    /\ IF strip(answer) = <<>>
       THEN /\ UNCHANGED evaluations
            /\ Ran("Questionnaire", idx, answer, <<>>, 0, 0, NoFile, PyNone, PyNone,
                   {"Please enter an answer before submitting"}, "none")
       ELSE \E raw \in EvaluationCompletions :
              LET r == EvaluationResults[raw]
                  stored == ~r.raised /\ Truthy(r.val)
              IN  /\ evaluations' =
                        IF stored
                        THEN DictStore(evaluations, answer_key(idx),
                                 PyDict(K_score :> Get(r.val, K_score, PyNone) @@
                                        K_feedback :> Get(r.val, K_feedback, PyNone)))
                        ELSE evaluations
                  /\ Ran("Questionnaire", idx, answer, raw, r.requests, 0, NoFile,
                         r.val,
                         IF stored /\ \E kv \in evaluations : kv[1] = answer_key(idx)
                         THEN (CHOOSE kv \in evaluations : kv[1] = answer_key(idx))[2]
                         ELSE PyNone,
                         r.errors, IF r.raised THEN "Exception" ELSE "none")
    /\ UNCHANGED <<notes, questions, plantuml_code, diagram_path, show_uml_code,
                   lesson_plan, flashcards, files>>

(***************************************************************************)
(* Page 4: Dashboard                                                       *)
(***************************************************************************)
\* d["score"] < 3 for every stored record: a TypeError unless score is a number.
Dashboard ==
    /\ runs < MaxRuns
    /\ UNCHANGED <<session, files>>
    /\ IF evaluations = {}
       THEN Ran("Dashboard", 0, <<>>, <<>>, 0, 0, NoFile, PyNone, PyNone,
                {"No evaluations available"}, "none")
       ELSE Ran("Dashboard", 0, <<>>, <<>>, 0, 0, NoFile, PyNone, PyNone, {},
                IF \E kv \in evaluations : ~IsNumber(kv[2].v[K_score])
                THEN "TypeError" ELSE "none")

(***************************************************************************)
(* Page 5: Visual Insights                                                 *)
(***************************************************************************)
VisualInsightsNoContent ==
    /\ runs < MaxRuns
    /\ ~Truthy(notes)
    /\ UNCHANGED <<session, files>>
    /\ Ran("Visual Insights", 0, <<>>, <<>>, 0, 0, NoFile, PyNone, PyNone,
           {"No content generated"}, "none")

FreeTempNames ==
    {n \in 1..MaxTempFiles :
        TempFile(n, ".uml") \notin files /\ TempFile(n, ".png") \notin files}

\* if not st.session_state["plantuml_code"]:
NeedsDiagramSource == ~Truthy(plantuml_code)

\* A render on every visit.
NeedsRender_always == TRUE

\* if not st.session_state["diagram_path"]:
NeedsRender == ~Truthy(diagram_path)

\* raw: the diagram-source completion, requested only without a cached
\* source; outcome, rename: what the renderer and os.rename do, when a
\* diagram is rendered; button: whether "Show/Hide UML Code" was pressed.
VisualInsights(button) ==
    LET need_code == NeedsDiagramSource
        need_render == NeedsRender
    IN  /\ runs < MaxRuns
        /\ Truthy(notes)
        /\ need_render => FreeTempNames # {}
        /\ \E raw \in IF need_code THEN PlantumlCompletions ELSE {<<>>},
              outcome \in IF need_render THEN RendererOutcomes ELSE {"zero_no_output"} :
            \E rename \in IF need_render /\ outcome = "zero_with_output"
                                         /\ OutputFile \in files
                          THEN RenameOutcomes ELSE {"replace"} :
              LET c == generate_plantuml_code(raw)
                  code == IF need_code THEN c.val ELSE plantuml_code
                  n == CHOOSE k \in FreeTempNames : \A j \in FreeTempNames : k <= j
                  g == generate_uml(files, n, outcome, rename)
                  aborted == need_render /\ g.raised # "none"
              IN  /\ plantuml_code' = code
                  /\ diagram_path' = IF need_render /\ ~aborted /\ Truthy(g.val)
                                     THEN g.val ELSE diagram_path
                  /\ files' = IF need_render THEN g.files ELSE files
                  /\ show_uml_code' = IF button /\ ~aborted
                                      THEN ~show_uml_code ELSE show_uml_code
                  /\ Ran("Visual Insights", 0, <<>>,
                         IF need_code THEN raw ELSE <<>>,
                         IF need_code THEN c.requests ELSE 0,
                         IF need_render THEN 1 ELSE 0,
                         IF need_render THEN TempFile(n, ".uml") ELSE NoFile,
                         IF need_render THEN g.val ELSE PyNone,
                         PyNone,
                         IF need_render THEN g.errors ELSE {},
                         IF need_render THEN g.raised ELSE "none")
        /\ UNCHANGED <<notes, questions, evaluations, lesson_plan, flashcards>>

(***************************************************************************)
(* Page 6: Lesson Planning (the button)                                    *)
(***************************************************************************)
LessonPlanning(raw) ==
    LET r == generate_lesson_plan(raw)
    IN  /\ runs < MaxRuns
        /\ lesson_plan' = r.val
        /\ UNCHANGED <<notes, questions, evaluations, plantuml_code, diagram_path,
                       show_uml_code, flashcards, files>>
        /\ Ran("Lesson Planning", 0, <<>>, raw, r.requests, 0, NoFile, r.val, PyNone,
               {}, "none")

(***************************************************************************)
(* The background task (frontend/tasks.py)                                 *)
(***************************************************************************)
EvaluateAnswerTask(raw) ==
    LET r == TaskResults[raw]
    IN  /\ runs < MaxRuns
        /\ UNCHANGED <<session, files>>
        /\ Ran("evaluate_answer_task", 0, <<>>, raw, r.requests, 0, NoFile, r.val,
               PyNone, {},
               IF r.raised THEN "Exception" ELSE "none")

Next ==
    \/ \E raw \in ContentCompletions : GenerateContentPage(raw)
    \/ FlashcardsPage
    \/ QuestionnaireNoContent
    \/ \E idx \in 1..9, answer \in Answers : SubmitAnswer(idx, answer)
    \/ Dashboard
    \/ VisualInsightsNoContent
    \/ \E button \in BOOLEAN : VisualInsights(button)
    \/ \E raw \in LessonCompletions : LessonPlanning(raw)
    \/ \E raw \in EvaluationCompletions : EvaluateAnswerTask(raw)

Spec == Init /\ [][Next]_vars

(***************************************************************************)
(* The parser and its callers on arbitrary completions: one call per       *)
(* behaviour, on a completion drawn from RawTexts.                         *)
(***************************************************************************)
\* The longest text over TextChars.
MaxTextLen == 3

\* The longest run of characters before and after an embedded object.
MaxNoiseLen == 1

SeqsUpTo(S, n) == UNION {[1..k -> S] : k \in 0..n}

TextChars == {"{", "}", "x"}

\* Prose, control characters and stray braces around an object.
NoiseChars == {"x", "\n", "\f", "{", "}"}

\* Objects a completion may carry; the last one has a raw line feed inside
\* a string value.
ObjectTexts ==
    { <<"{", "}">>,
      Object1(Member(<<"k">>, <<"1">>)),
      <<"{", "\n">> \o Member(<<"k">>, <<"1">>) \o <<"\t", "}">>,
      Object1(Member(<<"k">>, Object1(Member(<<"j">>, <<"1">>)))),
      Object2(Member(K_notes, Quote(<<"n">>)), Member(K_questions, ArrayOf(Quote(<<"q">>), 1))),
      Object1(Member(K_flashcards, ArrayOf(Quote(<<"q">>), 1))),
      Object1(Member(<<"k">>, Quote(<<"a", "\n", "b">>))) }

RawTexts ==
    SeqsUpTo(TextChars, MaxTextLen) \cup
    { pre \o obj \o post : pre \in SeqsUpTo(NoiseChars, MaxNoiseLen),
                           obj \in ObjectTexts,
                           post \in SeqsUpTo(NoiseChars, MaxNoiseLen) }

InitParser ==
    /\ notes = PyStr(<<>>)
    /\ questions = PyList(<<>>)
    /\ evaluations = {}
    /\ plantuml_code = PyStr(<<>>)
    /\ diagram_path = PyStr(<<>>)
    /\ show_uml_code = FALSE
    /\ lesson_plan = PyStr(<<>>)
    /\ flashcards = PyList(<<>>)
    /\ files = {}
    /\ page = "start"
    /\ pressed = 0
    /\ student_answer = <<>>
    /\ completion \in RawTexts
    /\ requests = 0
    /\ renders = 0
    /\ temp_file = NoFile
    /\ returned = PyNone
    /\ replaced = PyNone
    /\ shown = {}
    /\ fault = "none"
    /\ runs = 0

\* One call of f on the completion; r is what it returns.
Called(name, r) ==
    /\ page = "start"
    /\ UNCHANGED <<session, files>>
    /\ Ran(name, 0, <<>>, completion, 0, 0, NoFile, r.val, PyNone, r.errors,
           IF r.raised THEN "Exception" ELSE "none")

ParseInteractive ==
    \E r \in {parse_json_response(completion)} : Called("app.parse_json_response", r)

ParseBackground ==
    \E r \in {tasks_parse_json_response(completion)} :
        Called("tasks.parse_json_response",
               [raised |-> r.raised, val |-> r.val, errors |-> {}])

CallGenerateContent ==
    \E r \in {generate_content(completion)} : Called("generate_content", r)

CallGenerateFlashcards ==
    \E r \in {generate_flashcards(completion)} : Called("generate_flashcards", r)

NextParser ==
    \/ ParseInteractive
    \/ ParseBackground
    \/ CallGenerateContent
    \/ CallGenerateFlashcards

SpecParser == InitParser /\ [][NextParser]_vars

(***************************************************************************)
(* Properties of the Questionnaire page                                    *)
(***************************************************************************)
\* Empty, or whitespace only.
IsBlank(s) == \A i \in 1..Len(s) : s[i] \in PyWs

\* The run pressed a Submit button.
Submitted == page = "Questionnaire" /\ pressed > 0

\* The records a mapping ev holds under key.
RecordsFor(ev, key) == {kv[2] : kv \in {e \in ev : e[1] = key}}

\* The record the submit handler builds from an evaluation.
EvaluationRecord(evaluation) ==
    PyDict(K_score :> Get(evaluation, K_score, PyNone) @@
           K_feedback :> Get(evaluation, K_feedback, PyNone))

AnswerKeys == {kv[1] : kv \in evaluations}

\* C1: a Submit whose answer is empty or whitespace-only issues no completion
\* request, shows the empty-input error and leaves evaluations unchanged,
\* whatever the question and the session state.
C1_BlankSubmit ==
    [][(Submitted' /\ IsBlank(student_answer'))
         => /\ requests' = 0
            /\ evaluations' = evaluations
            /\ "Please enter an answer before submitting" \in shown']_vars

\* A whitespace-only answer submitted in a session that holds an evaluation.
C1_Witness ==
    /\ Submitted
    /\ student_answer # <<>>
    /\ IsBlank(student_answer)
    /\ evaluations # {}
    /\ requests = 0

\* C2 as stated: at most one record per question identifier, and after a
\* submission of a non-blank answer every record stored for that identifier
\* is the one of the latest submission's evaluation.
C2_Original ==
    /\ \A key \in AnswerKeys : Cardinality(RecordsFor(evaluations, key)) <= 1
    /\ (Submitted /\ ~IsBlank(student_answer))
         => \A rec \in RecordsFor(evaluations, answer_key(pressed)) :
               returned.t = "dict" /\ rec = EvaluationRecord(returned)

\* C2 amended: at most one record per question identifier; a submission of a
\* non-blank answer whose evaluation parses to a non-empty object leaves, for
\* that identifier, only the record of that evaluation and touches no other
\* identifier; any other submission leaves evaluations unchanged.
C2_Overwrite ==
    [][/\ \A key \in {kv[1] : kv \in evaluations'} :
             Cardinality(RecordsFor(evaluations', key)) <= 1
       /\ (Submitted' /\ ~IsBlank(student_answer'))
            => IF Truthy(returned')
               THEN /\ RecordsFor(evaluations', answer_key(pressed'))
                          = {EvaluationRecord(returned')}
                    /\ \A kv \in evaluations \cup evaluations' :
                          kv[1] # answer_key(pressed')
                             => (kv \in evaluations <=> kv \in evaluations')
               ELSE evaluations' = evaluations]_vars

\* A resubmission that replaced a different record.
C2_Witness ==
    /\ Submitted
    /\ replaced # PyNone
    /\ replaced # EvaluationRecord(returned)
    /\ RecordsFor(evaluations, answer_key(pressed)) = {EvaluationRecord(returned)}

(***************************************************************************)
(* Properties of the completion requests                                   *)
(***************************************************************************)
\* C7: each call of an orchestration function issues exactly one completion
\* request, also when the completion does not parse, is empty or the render
\* fails; a run that calls none issues none.
C7_OneRequest ==
    /\ page \in {"Generate Content", "Lesson Planning", "evaluate_answer_task"}
         => requests = 1
    /\ page = "Questionnaire"
         => requests = IF pressed > 0 /\ ~IsBlank(student_answer) THEN 1 ELSE 0
    /\ page = "Flashcards" => requests = IF Truthy(notes) THEN 1 ELSE 0
    /\ page = "Visual Insights"
         => requests = IF completion # <<>> \/ (Truthy(notes) /\ ~Truthy(plantuml_code))
                       THEN 1 ELSE 0
    /\ page \in {"Dashboard", "start"} => requests = 0

\* An evaluation whose completion did not parse: one request, no second one.
C7_Witness ==
    /\ Submitted
    /\ "Error parsing JSON" \in shown
    /\ returned = PyNone
    /\ requests = 1

(***************************************************************************)
(* Properties of the diagram cache                                         *)
(***************************************************************************)
\* C8: a non-empty plantuml_code is never changed and no later visit requests
\* a diagram source; a non-empty diagram_path is never changed and no later
\* run renders; Generate Content leaves both alone.
C8_DiagramCached ==
    [][/\ Truthy(plantuml_code)
            => /\ plantuml_code' = plantuml_code
               /\ page' = "Visual Insights" => requests' = 0
       /\ Truthy(diagram_path)
            => /\ diagram_path' = diagram_path
               /\ renders' = 0]_vars

\* New notes stored while a diagram source and a diagram are cached.
C8_Witness ==
    /\ page = "Generate Content"
    /\ returned.t = "tuple"
    /\ notes = returned.v[1]
    /\ Truthy(plantuml_code)
    /\ Truthy(diagram_path)

(***************************************************************************)
(* Properties of Generate Content                                          *)
(***************************************************************************)
\* The result lacks a non-empty notes string or a non-empty questions sequence.
ContentLacking(ret) ==
    ret.t # "tuple" \/ ~Truthy(ret.v[1]) \/ ~Truthy(ret.v[2])

\* C10: notes is non-empty exactly when questions is; both change only in a
\* Generate Content run, to the pair it returned; and a Generate Content run
\* whose result lacks either leaves notes, questions, evaluations and the
\* diagram cache unchanged.
C10_ReplacedTogether ==
    /\ [](Truthy(notes) <=> Truthy(questions))
    /\ [][/\ (notes' # notes \/ questions' # questions)
               => /\ page' = "Generate Content"
                  /\ returned'.t = "tuple"
                  /\ notes' = returned'.v[1]
                  /\ questions' = returned'.v[2]
          /\ (page' = "Generate Content" /\ ContentLacking(returned'))
               => UNCHANGED <<notes, questions, evaluations, plantuml_code,
                              diagram_path>>]_vars

\* A Generate Content run returned notes without questions in a session that
\* holds content, an evaluation and a diagram source.
C10_Witness ==
    /\ page = "Generate Content"
    /\ returned.t = "tuple"
    /\ Truthy(returned.v[1])
    /\ ~Truthy(returned.v[2])
    /\ Truthy(notes)
    /\ evaluations # {}

\* The text of a 5-element question array.
FiveQuestions == Member(K_questions, ArrayOf(Quote(<<"q">>), NumQuestions))

Contains(s, part) ==
    \E i \in 1..(Len(s) - Len(part) + 1) : SubSeq(s, i, i + Len(part) - 1) = part

\* C6 as stated: the stored questions sequence is empty or has exactly 5
\* elements; for a completion declaring a 5-element question array
\* generate_content returns 5 questions, which Generate Content stores.
C6_Original ==
    /\ NumItems(questions) \in {0, NumQuestions}
    /\ (page = "Generate Content" /\ Contains(completion, FiveQuestions))
         => /\ returned.t = "tuple"
            /\ NumItems(returned.v[2]) = NumQuestions
            /\ Truthy(returned.v[1]) => questions = returned.v[2]

(***************************************************************************)
(* Properties of generate_uml                                              *)
(***************************************************************************)
\* C4 as stated: whatever the renderer does, the temporary .uml file no
\* longer exists when generate_uml ends, and a successful call returns
\* diagram.png, which exists.
C4_Original ==
    (page = "Visual Insights" /\ renders = 1)
       => /\ temp_file \notin files
          /\ Truthy(returned)
               => /\ returned = PyStr(<<"d", "i", "a", "g", "r", "a", "m", ".", "p", "n", "g">>)
                  /\ OutputFile \in files

(***************************************************************************)
(* Properties of the Dashboard                                             *)
(***************************************************************************)
\* C9 as stated: every stored evaluation has a numeric score and a feedback
\* value, and the Dashboard never faults.
C9_Original ==
    /\ \A kv \in evaluations :
          IsNumber(kv[2].v[K_score]) /\ kv[2].v[K_feedback] # PyNone
    /\ page = "Dashboard" => fault = "none"

(***************************************************************************)
(* Properties of the parser and its callers                                *)
(***************************************************************************)
\* The text has no "{" followed, anywhere later, by a "}".
NoBraceSpan(s) ==
    ~\E i, j \in 1..Len(s) : i < j /\ s[i] = "{" /\ s[j] = "}"

\* The first-"{"-to-last-"}" span of the cleaned text is not JSON.
SpanUndecodable(s) ==
    /\ ~NoBraceSpan(s)
    /\ LET t == re_sub_control(s)
       IN  json_loads(SubSeq(t, FirstIndex(t, "{"), LastIndex(t, "}"))).raised

ParseFailure(s) == NoBraceSpan(s) \/ SpanUndecodable(s)

EmptyDefaults == PyTuple(PyStr(<<>>), PyList(<<>>))

\* C3 as stated: on a completion without a brace span, or with a span that
\* does not decode, the parser does not raise, generate_content returns the
\* empty string and the empty sequence and generate_flashcards the empty
\* sequence.
C3_Original ==
    ParseFailure(completion)
       => /\ fault = "none"
          /\ page = "generate_content" => returned = EmptyDefaults
          /\ page = "generate_flashcards" => returned = PyList(<<>>)

\* C3 amended: on such a completion the parser returns None without raising
\* and shows the parse error; generate_content returns (None, None) and
\* generate_flashcards returns None, each with its own error message, and
\* neither raises.
C3_NoneOnFailure ==
    (page # "start" /\ ParseFailure(completion))
       => /\ fault = "none"
          /\ page = "app.parse_json_response"
               => returned = PyNone /\ shown = {"Error parsing JSON"}
          /\ page = "tasks.parse_json_response" => returned = PyNone
          /\ page = "generate_content"
               => /\ returned = PyTuple(PyNone, PyNone)
                  /\ shown = {"Error parsing JSON",
                              "Failed to parse JSON output from the AI"}
          /\ page = "generate_flashcards"
               => /\ returned = PyNone
                  /\ shown = {"Error parsing JSON", "Failed to generate flashcards"}

\* generate_content called on a completion whose brace span does not decode.
C3_Witness ==
    /\ page = "generate_content"
    /\ SpanUndecodable(completion)
    /\ returned = PyTuple(PyNone, PyNone)

\* The spans of s that are a JSON object on their own.
ObjectSpans(s) ==
    {ij \in (1..Len(s)) \X (1..Len(s)) :
        /\ ij[1] < ij[2]
        /\ s[ij[1]] = "{"
        /\ s[ij[2]] = "}"
        /\ ~json_loads(SubSeq(s, ij[1], ij[2])).raised}

\* Those inside no other one.
OutermostObjectSpans(s) ==
    {ij \in ObjectSpans(s) :
        ~\E kl \in ObjectSpans(s) :
            kl # ij /\ kl[1] <= ij[1] /\ ij[2] <= kl[2]}

\* C5 as stated: when the completion holds a single well-formed JSON object,
\* whatever prose and control characters surround it, both parsers return
\* that object.
C5_Original ==
    \A ij \in OutermostObjectSpans(completion) :
        (/\ OutermostObjectSpans(completion) = {ij}
         /\ page \in {"app.parse_json_response", "tasks.parse_json_response"})
           => returned = json_loads(SubSeq(completion, ij[1], ij[2])).val

=============================================================================
